---- MODULE Spec2Model ----
(***************************************************************************)
(* A model of log_ec, a logging library for embedded C (src/src/log_ec.c). *)
(*                                                                         *)
(* The state is the logConfig singleton, the collaborators the test        *)
(* runner supplies (the mock mutex m_logIsLocked, the timestamp source     *)
(* m_timestamp, the console buffer) and, for every thread, the locals of   *)
(* the API call it is executing.  log_log is modelled statement by         *)
(* statement; the configuration functions are single steps.                *)
(***************************************************************************)
EXTENDS Integers, Sequences, FiniteSets, TLC

(* ------------------------------------------------------------------ *)
(* Bounds of the model                                                 *)
(* ------------------------------------------------------------------ *)

\* Capacity of the callback registry (a build-time macro; the tests build with 2).
LOG_MAX_CALLBACKS == 2

\* Number of threads that may call log_log concurrently.
NThreads == 2

(* ------------------------------------------------------------------ *)
(* Program constants                                                   *)
(* ------------------------------------------------------------------ *)

LOG_TRACE == 0
LOG_DEBUG == 1
LOG_INFO == 2
LOG_WARN == 3
LOG_ERROR == 4
LOG_FATAL == 5

\* Minimum width of the timestamp field of the prefix ("%8" PRIu32).
TimestampWidth == 8

\* Minimum width of the level name field of the prefix ("%-5s").
LevelWidth == 5

\* Timestamp returned by the test runner's provider.
DEFAULT_EXPECTED_TIMESTAMP == 12345

\* A uint32_t is kept as its two 16-bit halves, so that all 32 bits are held.
HalfWord == 65536

U32Of(n) == [hi |-> n \div HalfWord, lo |-> n % HalfWord]

\* 4294967295, the largest uint32_t.
UINT32_MAX == [hi |-> HalfWord - 1, lo |-> HalfWord - 1]

NULL == "NULL"

level_strings == <<"TRACE", "DEBUG", "INFO", "WARN", "ERROR", "FATAL">>

Levels == LOG_TRACE..LOG_FATAL

Threads == 1..NThreads

\* The thread of a single-threaded program.
MainThread == CHOOSE t \in Threads : \A u \in Threads : t <= u

Slots == 0..(LOG_MAX_CALLBACKS - 1)

(* ------------------------------------------------------------------ *)
(* Inputs                                                              *)
(* ------------------------------------------------------------------ *)

\* The (callback, data) pairs the application registers: one function with two
\* data objects, and another function with the data object of the first.
CallbackIds ==
    { [cbFn |-> "callbackFunction", cbData |-> "m_callback1Data"],
      [cbFn |-> "callbackFunction", cbData |-> "m_callback2Data"],
      [cbFn |-> "altCallbackFunction", cbData |-> "m_callback1Data"] }

\* Thresholds the application registers callbacks with.
CallbackLevels == {LOG_DEBUG, LOG_INFO}

\* Call sites of log_log: file, line, format string and arguments.
\* A format string is the sequence of its literal pieces and conversions.
CallSites == { [file |-> "x.c", line |-> 42, fmt |-> <<"v=", "%d", "\n">>, args |-> <<48>>] }

\* Call sites with other files, lines, conversions and arguments, with and
\* without a newline at the end of the format string.
FormatCallSites ==
    CallSites \cup
    { [file |-> "x.c", line |-> 42, fmt |-> <<"v=", "%d">>, args |-> <<48>>],
      [file |-> "test_runner.c", line |-> 410,
       fmt |-> <<"testValue is ", "%s", "\n">>, args |-> <<"Hello world!">>],
      [file |-> "test_runner.c", line |-> 428,
       fmt |-> <<"testValue is ", "%d", "\n">>, args |-> <<-2001>>] }

\* Values the timestamp source is set to: 0, the default, the largest value of
\* 8 digits, the smallest of 9 digits and the largest uint32_t.
Timestamps ==
    { U32Of(0), U32Of(DEFAULT_EXPECTED_TIMESTAMP), U32Of(99999999), U32Of(100000000),
      UINT32_MAX }

(* ------------------------------------------------------------------ *)
(* State                                                               *)
(* ------------------------------------------------------------------ *)

VARIABLES
    logConfig,       \* the tLogConfig singleton
    m_logIsLocked,   \* the mock mutex the lock function works on
    m_timestamp,     \* the value the timestamp function returns
    console,         \* the writes made to the console sink
    pc,              \* per thread: position in the API call being executed
    call,            \* per thread: the API call being executed and its result
    ev,              \* per thread: log_log's local tLog_event
    lockAcquired,    \* per thread: log_log's local lockAcquired
    result,          \* per thread: log_log's local result
    printfResult,    \* per thread: log_print's local printfResult
    i,               \* per thread: index of the callback loop of log_log
    steps            \* per thread: the calls log_log made to its collaborators

vars == <<logConfig, m_logIsLocked, m_timestamp, console, pc, call, ev,
          lockAcquired, result, printfResult, i, steps>>

envVars == <<m_logIsLocked, m_timestamp>>
localVars == <<ev, lockAcquired, result, printfResult, i, steps>>

EmptySlot == [cbFn |-> NULL, cbData |-> NULL, cbLogLevel |-> LOG_TRACE]

\* ap is the va_list cursor: the number of arguments consumed since va_start,
\* or ApClosed when no va_start is in effect.
ApClosed == -1

\* A sink handed the cursor as the previous statement left it.
va_start_missing(ap) == ap

\* va_start( ev.ap, fmt ): the cursor at the first format argument.
va_start(ap) == 0

\* va_end( ev.ap ): the cursor is closed.
va_end(ap) == ApClosed

NoEvent == [time |-> U32Of(0), level |-> 0, file |-> NULL, line |-> 0, fmt |-> <<>>,
            args |-> <<>>, ap |-> ApClosed]

\* An API call: its name, its arguments and, for the registry functions, the
\* values of the locals finished and registered when it returns and the index
\* at which the loop of log_unregisterCallbackFn stopped.
NoCall == [op |-> "none", cbFn |-> NULL, cbData |-> NULL, cbLogLevel |-> 0,
           finished |-> FALSE, registered |-> FALSE, foundAt |-> 0,
           level |-> 0, file |-> NULL, line |-> 0]

Init ==
    /\ logConfig = [lockData |-> NULL, lockFn |-> NULL, timestampFn |-> NULL,
                    level |-> LOG_TRACE, consoleLoggingDisabled |-> FALSE,
                    callbacks |-> [s \in Slots |-> EmptySlot]]
    /\ m_logIsLocked = FALSE
    /\ m_timestamp = U32Of(DEFAULT_EXPECTED_TIMESTAMP)
    /\ console = <<>>
    /\ pc = [t \in Threads |-> "idle"]
    /\ call = [t \in Threads |-> NoCall]
    /\ ev = [t \in Threads |-> NoEvent]
    /\ lockAcquired = [t \in Threads |-> FALSE]
    /\ result = [t \in Threads |-> 0]
    /\ printfResult = [t \in Threads |-> 0]
    /\ i = [t \in Threads |-> 0]
    /\ steps = [t \in Threads |-> <<>>]

(* ------------------------------------------------------------------ *)
(* Helpers                                                             *)
(* ------------------------------------------------------------------ *)

\* A call log_log made to one of its collaborators.
Step(op, slot, fn, data, e, ret) ==
    [op |-> op, slot |-> slot, fn |-> fn, data |-> data, ev |-> e, ret |-> ret]

RECURSIVE PadLeft(_, _)
PadLeft(s, w) == IF Len(s) >= w THEN s ELSE PadLeft(" " \o s, w)

RECURSIVE PadRight(_, _)
PadRight(s, w) == IF Len(s) >= w THEN s ELSE PadRight(s \o " ", w)

\* The text printf-style formatting of fmt produces from the arguments at
\* cursor position ap onwards, and the cursor afterwards.
RECURSIVE Format(_, _, _)
Format(fmt, args, ap) ==
    IF fmt = <<>> THEN [text |-> "", ap |-> ap]
    ELSE IF Head(fmt) \in {"%d", "%s"}
         THEN LET rest == Format(Tail(fmt), args, ap + 1)
                  arg == args[ap + 1]
              IN  [text |-> (IF Head(fmt) = "%d" THEN ToString(arg) ELSE arg) \o rest.text,
                   ap |-> rest.ap]
         ELSE LET rest == Format(Tail(fmt), args, ap)
              IN  [text |-> Head(fmt) \o rest.text, ap |-> rest.ap]

DecimalDigits == <<"0", "1", "2", "3", "4", "5", "6", "7", "8", "9">>

\* Quotient and remainder of a uint32_t divided by ten.
U32DivMod10(v) ==
    LET low == (v.hi % 10) * HalfWord + v.lo
    IN  [q |-> [hi |-> v.hi \div 10, lo |-> low \div 10], r |-> low % 10]

\* The PRIu32 conversion: the decimal digits of a uint32_t.
RECURSIVE U32ToString(_)
U32ToString(v) ==
    IF v.hi = 0 /\ v.lo < 10 THEN DecimalDigits[v.lo + 1]
    ELSE LET d == U32DivMod10(v) IN U32ToString(d.q) \o DecimalDigits[d.r + 1]

\* The timestamp converted as a 16-bit value.
TimestampField_sixteenBit(time) ==
    PadLeft(U32ToString([hi |-> 0, lo |-> time.lo]), TimestampWidth)

\* "%8" PRIu32: the timestamp, right-justified in at least 8 characters.
TimestampField(time) == PadLeft(U32ToString(time), TimestampWidth)

\* The level name without padding.
LevelField_unpadded(level) == level_strings[level + 1]

\* "%-5s": the level name, left-justified in at least 5 characters.
LevelField(level) == PadRight(level_strings[level + 1], LevelWidth)

\* The message prefix of log_print: "%8" PRIu32 " %-5s %s:%d: ".
Prefix(e) ==
    TimestampField(e.time) \o " " \o LevelField(e.level) \o " "
        \o e.file \o ":" \o ToString(e.line) \o ": "

\* The mock mutex of the test runner: lockFn( lock, lockData ) on *lockData = locked.
setLockState(acquire, locked) ==
    IF acquire THEN [success |-> ~locked, locked |-> TRUE]
               ELSE [success |-> TRUE, locked |-> FALSE]

\* getTimestamp calling the provider without the check for NULL.
getTimestamp_unchecked(cfg, now) == now

getTimestamp(cfg, now) == IF cfg.timestampFn # NULL THEN now ELSE U32Of(0)

\* lock() that calls the lock function but reports success whatever it returns.
lock_resultIgnored(cfg, locked) ==
    IF cfg.lockFn # NULL THEN [success |-> TRUE, locked |-> TRUE]
                         ELSE [success |-> TRUE, locked |-> locked]

\* lock() failing when no lock function is installed.
lock_deniesWithoutProvider(cfg, locked) ==
    IF cfg.lockFn # NULL THEN setLockState(TRUE, locked)
                         ELSE [success |-> FALSE, locked |-> locked]

lock(cfg, locked) ==
    IF cfg.lockFn # NULL THEN setLockState(TRUE, locked)
                         ELSE [success |-> TRUE, locked |-> locked]

\* unlock() that never calls the lock function.
unlock_notCalled(cfg, locked) == [success |-> TRUE, locked |-> locked]

unlock(cfg, locked) ==
    IF cfg.lockFn # NULL THEN setLockState(FALSE, locked)
                         ELSE [success |-> TRUE, locked |-> locked]

\* The console condition with > for >=.
ConsoleDue_strict(cfg, level) == ~cfg.consoleLoggingDisabled /\ level > cfg.level

\* The console condition without the test of consoleLoggingDisabled.
ConsoleDue_ignoresOff(cfg, level) == level >= cfg.level

\* The condition under which log_log writes the event to the console.
ConsoleDue(cfg, level) == ~cfg.consoleLoggingDisabled /\ level >= cfg.level

\* The callback condition with the global minimum level as a further filter.
CallbackDue_globalLevel(cb, level) ==
    cb.cbFn # NULL /\ level >= cb.cbLogLevel /\ level >= logConfig.level

\* The callback condition comparing with the global minimum, not the threshold.
CallbackDue_setLevel(cb, level) == cb.cbFn # NULL /\ level >= logConfig.level

\* The callback condition with > for >=.
CallbackDue_strict(cb, level) == cb.cbFn # NULL /\ level > cb.cbLogLevel

\* The condition under which log_log invokes the callback of a registry slot.
CallbackDue(cb, level) == cb.cbFn # NULL /\ level >= cb.cbLogLevel

\* Every callback handed the data pointer of the first slot.
CallbackArg_firstSlot(cb) == logConfig.callbacks[0].cbData

\* The loop of log_log walking the registry from the last slot down.
CallbackAt_descending(cbs, idx) == cbs[LOG_MAX_CALLBACKS - 1 - idx]

\* tCallback* cb = &logConfig.callbacks[i];
CallbackAt(cbs, idx) == cbs[idx]

\* The data pointer log_log passes to the callback of a slot.
CallbackArg(cb) == cb.cbData

\* The slots the loop of log_unregisterCallbackFn finds matching.
Matching(cbs, cbFn, cbData) ==
    {s \in Slots : cbs[s].cbFn = cbFn /\ cbs[s].cbData = cbData}

Min(S) == CHOOSE x \in S : \A y \in S : x <= y

\* The index of the slot the loop of log_unregisterCallbackFn finds, or
\* LOG_MAX_CALLBACKS when it runs to the end.
FoundAt(cbs, cbFn, cbData) ==
    IF Matching(cbs, cbFn, cbData) = {} THEN LOG_MAX_CALLBACKS
    ELSE Min(Matching(cbs, cbFn, cbData))

\* log_unregisterCallbackFn reporting the entry found but leaving it in place.
unregisterCallbackFn_keepsEntry(cbs, cbFn, cbData) ==
    [callbacks |-> cbs, finished |-> Matching(cbs, cbFn, cbData) # {}]

\* log_unregisterCallbackFn comparing only the data pointer.
unregisterCallbackFn_byDataOnly(cbs, cbFn, cbData) ==
    LET m == {s \in Slots : cbs[s].cbFn # NULL /\ cbs[s].cbData = cbData}
    IN  IF m = {} THEN [callbacks |-> cbs, finished |-> FALSE]
        ELSE [callbacks |-> [cbs EXCEPT ![Min(m)] = EmptySlot], finished |-> TRUE]

\* log_unregisterCallbackFn comparing only the function pointer.
unregisterCallbackFn_byFnOnly(cbs, cbFn, cbData) ==
    LET m == {s \in Slots : cbs[s].cbFn = cbFn}
    IN  IF m = {} THEN [callbacks |-> cbs, finished |-> FALSE]
        ELSE [callbacks |-> [cbs EXCEPT ![Min(m)] = EmptySlot], finished |-> TRUE]

\* log_unregisterCallbackFn: the registry afterwards and the local finished.
unregisterCallbackFn(cbs, cbFn, cbData) ==
    LET m == Matching(cbs, cbFn, cbData)
    IN  IF m = {} THEN [callbacks |-> cbs, finished |-> FALSE]
        ELSE [callbacks |-> [cbs EXCEPT ![Min(m)] = EmptySlot], finished |-> TRUE]

\* log_registerCallbackFn without the removal of the existing registration.
registerCallbackFn_noDedup(cbs, cbFn, cbData, cbLogLevel) ==
    LET free == {s \in Slots : cbs[s].cbFn = NULL}
    IN  IF free = {}
        THEN [callbacks |-> cbs, finished |-> FALSE, registered |-> FALSE]
        ELSE [callbacks |-> [cbs EXCEPT ![CHOOSE s \in free : \A u \in free : s <= u] =
                                [cbFn |-> cbFn, cbData |-> cbData, cbLogLevel |-> cbLogLevel]],
              finished |-> FALSE, registered |-> TRUE]

\* log_registerCallbackFn taking the first slot when none is free.
registerCallbackFn_overwritesWhenFull(cbs, cbFn, cbData, cbLogLevel) ==
    LET un == unregisterCallbackFn(cbs, cbFn, cbData)
        free == {s \in Slots : un.callbacks[s].cbFn = NULL}
        slot == IF free = {} THEN 0 ELSE Min(free)
    IN  [callbacks |-> [un.callbacks EXCEPT ![slot] =
                           [cbFn |-> cbFn, cbData |-> cbData, cbLogLevel |-> cbLogLevel]],
         finished |-> un.finished, registered |-> TRUE]

\* log_registerCallbackFn looking for a free slot before it removes the
\* existing registration.
registerCallbackFn_capacityFirst(cbs, cbFn, cbData, cbLogLevel) ==
    LET un == unregisterCallbackFn(cbs, cbFn, cbData)
        free == {s \in Slots : cbs[s].cbFn = NULL}
    IN  IF free = {}
        THEN [callbacks |-> cbs, finished |-> FALSE, registered |-> FALSE]
        ELSE [callbacks |-> [un.callbacks EXCEPT ![Min({s \in Slots : un.callbacks[s].cbFn = NULL})] =
                                [cbFn |-> cbFn, cbData |-> cbData, cbLogLevel |-> cbLogLevel]],
              finished |-> un.finished, registered |-> TRUE]

\* log_registerCallbackFn scanning for an empty slot from the last slot down.
registerCallbackFn_highestFree(cbs, cbFn, cbData, cbLogLevel) ==
    LET un == unregisterCallbackFn(cbs, cbFn, cbData)
        free == {s \in Slots : un.callbacks[s].cbFn = NULL}
    IN  IF free = {}
        THEN [callbacks |-> un.callbacks, finished |-> un.finished, registered |-> FALSE]
        ELSE [callbacks |-> [un.callbacks EXCEPT ![CHOOSE s \in free : \A u \in free : u <= s] =
                                [cbFn |-> cbFn, cbData |-> cbData, cbLogLevel |-> cbLogLevel]],
              finished |-> un.finished, registered |-> TRUE]

\* log_registerCallbackFn whose loop does not stop at the first empty slot.
registerCallbackFn_fillsAllFree(cbs, cbFn, cbData, cbLogLevel) ==
    LET un == unregisterCallbackFn(cbs, cbFn, cbData)
        free == {s \in Slots : un.callbacks[s].cbFn = NULL}
    IN  [callbacks |-> [s \in Slots |->
                           IF s \in free
                           THEN [cbFn |-> cbFn, cbData |-> cbData, cbLogLevel |-> cbLogLevel]
                           ELSE un.callbacks[s]],
         finished |-> un.finished, registered |-> free # {}]

\* log_registerCallbackFn removing the existing registration only when it
\* finds no empty slot.
registerCallbackFn_dedupWhenFull(cbs, cbFn, cbData, cbLogLevel) ==
    LET full == \A s \in Slots : cbs[s].cbFn # NULL
        un == IF full THEN unregisterCallbackFn(cbs, cbFn, cbData)
                      ELSE [callbacks |-> cbs, finished |-> FALSE]
        free == {s \in Slots : un.callbacks[s].cbFn = NULL}
    IN  IF free = {}
        THEN [callbacks |-> un.callbacks, finished |-> un.finished, registered |-> FALSE]
        ELSE [callbacks |-> [un.callbacks EXCEPT ![Min(free)] =
                                [cbFn |-> cbFn, cbData |-> cbData, cbLogLevel |-> cbLogLevel]],
              finished |-> un.finished, registered |-> TRUE]

\* log_registerCallbackFn: the registry afterwards and the locals.
registerCallbackFn(cbs, cbFn, cbData, cbLogLevel) ==
    LET un == unregisterCallbackFn(cbs, cbFn, cbData)
        free == {s \in Slots : un.callbacks[s].cbFn = NULL}
    IN  IF free = {}
        THEN [callbacks |-> un.callbacks, finished |-> un.finished, registered |-> FALSE]
        ELSE [callbacks |-> [un.callbacks EXCEPT ![Min(free)] =
                                [cbFn |-> cbFn, cbData |-> cbData, cbLogLevel |-> cbLogLevel]],
              finished |-> un.finished, registered |-> TRUE]

Occupied(cbs) == {s \in Slots : cbs[s].cbFn # NULL}

AllIdle == \A t \in Threads : pc[t] = "idle"

(* ------------------------------------------------------------------ *)
(* Configuration functions                                             *)
(* ------------------------------------------------------------------ *)

log_setLockFn(t, lockFn, lockData) ==
    /\ pc[t] = "idle"
    /\ logConfig' = [logConfig EXCEPT !.lockFn = lockFn, !.lockData = lockData]
    /\ UNCHANGED <<envVars, console, pc, call, localVars>>

log_setTimestampFn(t, timestampFn) ==
    /\ pc[t] = "idle"
    /\ logConfig' = [logConfig EXCEPT !.timestampFn = timestampFn]
    /\ UNCHANGED <<envVars, console, pc, call, localVars>>

\* log_setLevel that also switches the console on.
log_setLevel_enablesConsole(t, level) ==
    /\ pc[t] = "idle"
    /\ logConfig' = [logConfig EXCEPT !.level = level, !.consoleLoggingDisabled = FALSE]
    /\ UNCHANGED <<envVars, console, pc, call, localVars>>

log_setLevel(t, level) ==
    /\ pc[t] = "idle"
    /\ logConfig' = [logConfig EXCEPT !.level = level]
    /\ UNCHANGED <<envVars, console, pc, call, localVars>>

log_off(t) ==
    /\ pc[t] = "idle"
    /\ logConfig' = [logConfig EXCEPT !.consoleLoggingDisabled = TRUE]
    /\ UNCHANGED <<envVars, console, pc, call, localVars>>

log_on(t) ==
    /\ pc[t] = "idle"
    /\ logConfig' = [logConfig EXCEPT !.consoleLoggingDisabled = FALSE]
    /\ UNCHANGED <<envVars, console, pc, call, localVars>>

log_registerCallbackFn(t, cbFn, cbData, cbLogLevel) ==
    /\ pc[t] = "idle"
    /\ LET r == registerCallbackFn(logConfig.callbacks, cbFn, cbData, cbLogLevel)
       IN  /\ logConfig' = [logConfig EXCEPT !.callbacks = r.callbacks]
           /\ call' = [call EXCEPT ![t] =
                  [NoCall EXCEPT !.op = "register", !.cbFn = cbFn, !.cbData = cbData,
                                 !.cbLogLevel = cbLogLevel, !.finished = r.finished,
                                 !.registered = r.registered,
                                 !.foundAt = FoundAt(logConfig.callbacks, cbFn, cbData)]]
    /\ pc' = [pc EXCEPT ![t] = "done"]
    /\ UNCHANGED <<envVars, console, localVars>>

log_unregisterCallbackFn(t, cbFn, cbData) ==
    /\ pc[t] = "idle"
    /\ LET r == unregisterCallbackFn(logConfig.callbacks, cbFn, cbData)
       IN  /\ logConfig' = [logConfig EXCEPT !.callbacks = r.callbacks]
           /\ call' = [call EXCEPT ![t] =
                  [NoCall EXCEPT !.op = "unregister", !.cbFn = cbFn, !.cbData = cbData,
                                 !.finished = r.finished,
                                 !.foundAt = FoundAt(logConfig.callbacks, cbFn, cbData)]]
    /\ pc' = [pc EXCEPT ![t] = "done"]
    /\ UNCHANGED <<envVars, console, localVars>>

(* ------------------------------------------------------------------ *)
(* The console sink and the other users of the mutex                   *)
(* ------------------------------------------------------------------ *)

\* CONSOLE_PRINTF / CONSOLE_VPRINTF: the sink appends the text and returns its
\* length, or fails, writes nothing and returns a negative value.
consoleWrite(t, part, text, ok) ==
    IF ok THEN [console |-> Append(console, [thread |-> t, part |-> part, text |-> text]),
                ret |-> Len(text)]
          ELSE [console |-> console, ret |-> -1]

\* The console without the writes of thread t (its previous call).
ConsoleWithout(t) == SelectSeq(console, LAMBDA w : w.thread # t)

\* The mutex is taken by a thread outside the model (the test runner sets
\* m_logIsLocked = true to simulate it) ...
otherThreadLocks(t) ==
    /\ pc[t] = "idle"
    /\ ~m_logIsLocked
    /\ m_logIsLocked' = TRUE
    /\ UNCHANGED <<logConfig, m_timestamp, console, pc, call, localVars>>

\* setExpectedTimestamp of the test runner: the value the provider returns next.
setExpectedTimestamp(t, expectedTimestamp) ==
    /\ pc[t] = "idle"
    /\ m_timestamp' = expectedTimestamp
    /\ UNCHANGED <<logConfig, m_logIsLocked, console, pc, call, localVars>>

\* ... and given back.
otherThreadUnlocks(t) ==
    /\ pc[t] = "idle"
    /\ m_logIsLocked
    /\ m_logIsLocked' = FALSE
    /\ UNCHANGED <<logConfig, m_timestamp, console, pc, call, localVars>>

(* ------------------------------------------------------------------ *)
(* log_log, statement by statement                                     *)
(* ------------------------------------------------------------------ *)

\* Entry: the event is built and the timestamp read.
log_log_entry(t, level, site) ==
    /\ pc[t] = "idle"
    /\ LET time == getTimestamp(logConfig, m_timestamp)
       IN  /\ ev' = [ev EXCEPT ![t] =
                  [time |-> time, level |-> level, file |-> site.file,
                   line |-> site.line, fmt |-> site.fmt, args |-> site.args,
                   ap |-> ApClosed]]
           /\ steps' = [steps EXCEPT ![t] =
                  IF logConfig.timestampFn # NULL
                  THEN <<Step("timestamp", 0, logConfig.timestampFn, NULL, NoEvent, time)>>
                  ELSE <<>>]
    /\ result' = [result EXCEPT ![t] = 0]
    /\ call' = [call EXCEPT ![t] =
           [NoCall EXCEPT !.op = "log_log", !.level = level, !.file = site.file,
                          !.line = site.line]]
    /\ console' = ConsoleWithout(t)
    /\ pc' = [pc EXCEPT ![t] = "lock"]
    /\ UNCHANGED <<logConfig, envVars, lockAcquired, printfResult, i>>

\* log_log going on to the sinks whether or not the lock was acquired.
AfterLock_ignoresFailure(acquired) == "console"

\* log_log trying lock() again after a failure.
AfterLock_retries(acquired) == IF acquired THEN "console" ELSE "lock"

\* log_log waiting after a failed lock().
AfterLock_blocks(acquired) == IF acquired THEN "console" ELSE "blocked"

\* if( lockAcquired ): where log_log continues after lock().
AfterLock(acquired) == IF acquired THEN "console" ELSE "done"

\* bool lockAcquired = lock();
log_log_lock(t) ==
    /\ pc[t] = "lock"
    /\ LET r == lock(logConfig, m_logIsLocked)
       IN  /\ m_logIsLocked' = r.locked
           /\ lockAcquired' = [lockAcquired EXCEPT ![t] = r.success]
           /\ steps' = [steps EXCEPT ![t] =
                  IF logConfig.lockFn # NULL
                  THEN Append(@, Step("acquire", 0, logConfig.lockFn, logConfig.lockData,
                                      NoEvent, IF r.success THEN 1 ELSE 0))
                  ELSE @]
           /\ pc' = [pc EXCEPT ![t] = AfterLock(r.success)]
    /\ UNCHANGED <<logConfig, m_timestamp, console, call, ev, result, printfResult, i>>

\* log_log with unlock() placed before the sinks.
log_log_console_unlocksFirst(t) ==
    /\ pc[t] = "console"
    /\ LET r == unlock(logConfig, m_logIsLocked)
       IN  /\ m_logIsLocked' = r.locked
           /\ steps' = [steps EXCEPT ![t] =
                  IF logConfig.lockFn # NULL
                  THEN Append(@, Step("release", 0, logConfig.lockFn, logConfig.lockData,
                                      NoEvent, IF r.success THEN 1 ELSE 0))
                  ELSE @]
    /\ IF ConsoleDue(logConfig, ev[t].level)
       THEN /\ ev' = [ev EXCEPT ![t].ap = va_start(@)]
            /\ pc' = [pc EXCEPT ![t] = "printf"]
            /\ UNCHANGED i
       ELSE /\ pc' = [pc EXCEPT ![t] = "callbacks"]
            /\ i' = [i EXCEPT ![t] = 0]
            /\ UNCHANGED ev
    /\ UNCHANGED <<logConfig, m_timestamp, console, call, lockAcquired, result,
                   printfResult>>

\* The console condition written with an assignment to the minimum level in
\* place of the comparison with it.
log_log_console_assignsLevel(t) ==
    /\ pc[t] = "console"
    /\ logConfig' = [logConfig EXCEPT !.level = ev[t].level]
    /\ IF ConsoleDue(logConfig', ev[t].level)
       THEN /\ ev' = [ev EXCEPT ![t].ap = va_start(@)]
            /\ pc' = [pc EXCEPT ![t] = "printf"]
            /\ UNCHANGED i
       ELSE /\ pc' = [pc EXCEPT ![t] = "callbacks"]
            /\ i' = [i EXCEPT ![t] = 0]
            /\ UNCHANGED ev
    /\ UNCHANGED <<envVars, console, call, lockAcquired, result, printfResult, steps>>

\* if( !logConfig.consoleLoggingDisabled && ( level >= logConfig.level ) ) va_start
log_log_console(t) ==
    /\ pc[t] = "console"
    /\ IF ConsoleDue(logConfig, ev[t].level)
       THEN /\ ev' = [ev EXCEPT ![t].ap = va_start(@)]
            /\ pc' = [pc EXCEPT ![t] = "printf"]
            /\ UNCHANGED i
       ELSE /\ pc' = [pc EXCEPT ![t] = "callbacks"]
            /\ i' = [i EXCEPT ![t] = 0]
            /\ UNCHANGED ev
    /\ UNCHANGED <<logConfig, envVars, console, call, lockAcquired, result,
                   printfResult, steps>>

\* What a read of level_strings[level] beyond the six entries can yield as
\* the %s argument when it does not fault: the word after the table read as a
\* null pointer (printed "(null)") or as a pointer to an empty string.
StrayStrings == {"(null)", ""}

\* The prefix with whatever the read beyond level_strings yielded as the name.
StrayPrefix(e, name) ==
    TimestampField(e.time) \o " " \o PadRight(name, LevelWidth) \o " " \o e.file \o ":"
        \o ToString(e.line) \o ": "

\* log_print: int printfResult = CONSOLE_PRINTF( prefix );
\* level_strings[ev->level] is read without a range check: outside the table
\* the read is undefined, and either yields a stray string or faults.
log_print_printf(t, ok) ==
    /\ pc[t] = "printf"
    /\ \/ /\ (ev[t].level + 1) \in DOMAIN level_strings
          /\ LET w == consoleWrite(t, "prefix", Prefix(ev[t]), ok)
             IN  /\ console' = w.console
                 /\ printfResult' = [printfResult EXCEPT ![t] = w.ret]
                 /\ steps' = [steps EXCEPT ![t] =
                        Append(@, Step("printf", 0, "CONSOLE_PRINTF", NULL, ev[t], w.ret))]
          /\ pc' = [pc EXCEPT ![t] = "vprintf"]
       \/ /\ (ev[t].level + 1) \notin DOMAIN level_strings
          /\ \E name \in StrayStrings :
               LET w == consoleWrite(t, "prefix", StrayPrefix(ev[t], name), ok)
               IN  /\ console' = w.console
                   /\ printfResult' = [printfResult EXCEPT ![t] = w.ret]
                   /\ steps' = [steps EXCEPT ![t] =
                          Append(@, Step("printf", 0, "CONSOLE_PRINTF", NULL, ev[t], w.ret))]
          /\ pc' = [pc EXCEPT ![t] = "vprintf"]
       \/ /\ (ev[t].level + 1) \notin DOMAIN level_strings
          /\ pc' = [pc EXCEPT ![t] = "fault"]
          /\ UNCHANGED <<console, printfResult, steps>>
    /\ UNCHANGED <<logConfig, envVars, call, ev, lockAcquired, result, i>>

\* log_print returning the length of the body alone.
log_print_result_bodyOnly(printfRes, vprintfRes) ==
    IF printfRes >= 0 /\ vprintfRes >= 0 THEN vprintfRes ELSE -1

\* log_print adding the two results without looking at their signs.
log_print_result_sum(printfRes, vprintfRes) == printfRes + vprintfRes

\* The value log_print returns.
log_print_result(printfRes, vprintfRes) ==
    IF printfRes >= 0 /\ vprintfRes >= 0 THEN printfRes + vprintfRes ELSE -1

\* log_print: int vprintfResult = CONSOLE_VPRINTF( ev->fmt, ev->ap ); return;
\* then va_end and the start of the callback loop.
log_print_vprintf(t, ok) ==
    /\ pc[t] = "vprintf"
    /\ LET f == Format(ev[t].fmt, ev[t].args, ev[t].ap)
           w == consoleWrite(t, "body", f.text, ok)
       IN  /\ console' = w.console
           /\ result' = [result EXCEPT ![t] = log_print_result(printfResult[t], w.ret)]
           /\ steps' = [steps EXCEPT ![t] =
                  Append(@, Step("vprintf", 0, "CONSOLE_VPRINTF", NULL, ev[t], w.ret))]
    /\ ev' = [ev EXCEPT ![t].ap = va_end(Format(ev[t].fmt, ev[t].args, ev[t].ap).ap)]
    /\ i' = [i EXCEPT ![t] = 0]
    /\ pc' = [pc EXCEPT ![t] = "callbacks"]
    /\ UNCHANGED <<logConfig, envVars, call, lockAcquired, printfResult>>

\* One iteration of the loop over logConfig.callbacks: va_start, the call, va_end.
log_log_callback(t) ==
    /\ pc[t] = "callbacks"
    /\ i[t] < LOG_MAX_CALLBACKS
    /\ LET cb == CallbackAt(logConfig.callbacks, i[t])
       IN  steps' = [steps EXCEPT ![t] =
               IF CallbackDue(cb, ev[t].level)
               THEN Append(@, Step("callback", i[t], cb.cbFn, CallbackArg(cb),
                                   [ev[t] EXCEPT !.ap = va_start(@)], 0))
               ELSE @]
    /\ i' = [i EXCEPT ![t] = @ + 1]
    /\ UNCHANGED <<logConfig, envVars, console, pc, call, ev, lockAcquired, result,
                   printfResult>>

\* unlock(); after the loop
log_log_unlock(t) ==
    /\ pc[t] = "callbacks"
    /\ i[t] >= LOG_MAX_CALLBACKS
    /\ LET r == unlock(logConfig, m_logIsLocked)
       IN  /\ m_logIsLocked' = r.locked
           /\ steps' = [steps EXCEPT ![t] =
                  IF logConfig.lockFn # NULL
                  THEN Append(@, Step("release", 0, logConfig.lockFn, logConfig.lockData,
                                      NoEvent, IF r.success THEN 1 ELSE 0))
                  ELSE @]
    /\ pc' = [pc EXCEPT ![t] = "done"]
    /\ UNCHANGED <<logConfig, m_timestamp, console, call, ev, lockAcquired, result,
                   printfResult, i>>

\* The API call returns to its caller, which drops the locals and looks at
\* the console no further.
api_return(t) ==
    /\ pc[t] = "done"
    /\ pc' = [pc EXCEPT ![t] = "idle"]
    /\ call' = [call EXCEPT ![t] = NoCall]
    /\ ev' = [ev EXCEPT ![t] = NoEvent]
    /\ lockAcquired' = [lockAcquired EXCEPT ![t] = FALSE]
    /\ result' = [result EXCEPT ![t] = 0]
    /\ printfResult' = [printfResult EXCEPT ![t] = 0]
    /\ i' = [i EXCEPT ![t] = 0]
    /\ steps' = [steps EXCEPT ![t] = <<>>]
    /\ console' = ConsoleWithout(t)
    /\ UNCHANGED <<logConfig, envVars>>

(* ------------------------------------------------------------------ *)
(* Specifications                                                      *)
(* ------------------------------------------------------------------ *)

\* The steps of log_log executed by thread t.
Dispatch(t) ==
    \/ \E level \in Levels, site \in CallSites : log_log_entry(t, level, site)
    \/ log_log_lock(t)
    \/ log_log_console(t)
    \/ \E ok \in BOOLEAN : log_print_printf(t, ok)
    \/ \E ok \in BOOLEAN : log_print_vprintf(t, ok)
    \/ log_log_callback(t)
    \/ log_log_unlock(t)
    \/ api_return(t)

\* The configuration calls made by thread t.
Configure(t) ==
    \/ log_setLockFn(t, "setLockState", "m_logIsLocked")
    \/ log_setLockFn(t, NULL, NULL)
    \/ \E f \in {NULL, "getTimestamp"} : log_setTimestampFn(t, f)
    \/ \E level \in Levels : log_setLevel(t, level)
    \/ log_off(t)
    \/ log_on(t)
    \/ \E id \in CallbackIds, l \in CallbackLevels :
           log_registerCallbackFn(t, id.cbFn, id.cbData, l)
    \/ \E id \in CallbackIds : log_unregisterCallbackFn(t, id.cbFn, id.cbData)

\* A single-threaded program making any sequence of API calls, while the mutex
\* may be held by some other party.
Next ==
    \/ Configure(MainThread)
    \/ Dispatch(MainThread)
    \/ otherThreadLocks(MainThread)
    \/ otherThreadUnlocks(MainThread)

Spec == Init /\ [][Next]_vars

\* The state after the application has configured the logger (a mutex as Lock
\* Provider, a Timestamp Provider, two callbacks) and before its threads log.
InitConcurrent ==
    /\ \E level \in {LOG_TRACE, LOG_INFO}, off \in BOOLEAN :
         logConfig = [lockData |-> "m_logIsLocked", lockFn |-> "setLockState",
                      timestampFn |-> "getTimestamp",
                      level |-> level, consoleLoggingDisabled |-> off,
                      callbacks |-> [s \in Slots |->
                          IF s = 0 THEN [cbFn |-> "callbackFunction",
                                         cbData |-> "m_callback1Data",
                                         cbLogLevel |-> LOG_INFO]
                          ELSE IF s = 1 THEN [cbFn |-> "callbackFunction",
                                              cbData |-> "m_callback2Data",
                                              cbLogLevel |-> LOG_DEBUG]
                          ELSE EmptySlot]]
    /\ m_logIsLocked = FALSE
    /\ m_timestamp = U32Of(DEFAULT_EXPECTED_TIMESTAMP)
    /\ console = <<>>
    /\ pc = [t \in Threads |-> "idle"]
    /\ call = [t \in Threads |-> NoCall]
    /\ ev = [t \in Threads |-> NoEvent]
    /\ lockAcquired = [t \in Threads |-> FALSE]
    /\ result = [t \in Threads |-> 0]
    /\ printfResult = [t \in Threads |-> 0]
    /\ i = [t \in Threads |-> 0]
    /\ steps = [t \in Threads |-> <<>>]

\* Threads calling log_log concurrently on a configured logger.
NextConcurrent == \E t \in Threads : Dispatch(t)

SpecConcurrent == InitConcurrent /\ [][NextConcurrent]_vars

\* A program with one callback registered and no Timestamp Provider set yet.
InitFormat ==
    /\ logConfig = [lockData |-> NULL, lockFn |-> NULL, timestampFn |-> NULL,
                    level |-> LOG_TRACE, consoleLoggingDisabled |-> FALSE,
                    callbacks |-> [s \in Slots |->
                        IF s = 0 THEN [cbFn |-> "callbackFunction",
                                       cbData |-> "m_callback1Data",
                                       cbLogLevel |-> LOG_INFO]
                        ELSE EmptySlot]]
    /\ m_logIsLocked = FALSE
    /\ m_timestamp = U32Of(DEFAULT_EXPECTED_TIMESTAMP)
    /\ console = <<>>
    /\ pc = [t \in Threads |-> "idle"]
    /\ call = [t \in Threads |-> NoCall]
    /\ ev = [t \in Threads |-> NoEvent]
    /\ lockAcquired = [t \in Threads |-> FALSE]
    /\ result = [t \in Threads |-> 0]
    /\ printfResult = [t \in Threads |-> 0]
    /\ i = [t \in Threads |-> 0]
    /\ steps = [t \in Threads |-> <<>>]

\* The program logs from any of the call sites at any timestamp, installing
\* and removing the Timestamp Provider in between.
NextFormat ==
    \/ \E level \in Levels, site \in FormatCallSites :
           log_log_entry(MainThread, level, site)
    \/ log_log_lock(MainThread)
    \/ log_log_console(MainThread)
    \/ \E ok \in BOOLEAN : log_print_printf(MainThread, ok)
    \/ \E ok \in BOOLEAN : log_print_vprintf(MainThread, ok)
    \/ log_log_callback(MainThread)
    \/ log_log_unlock(MainThread)
    \/ api_return(MainThread)
    \/ \E f \in {NULL, "getTimestamp"} : log_setTimestampFn(MainThread, f)
    \/ \E v \in Timestamps : setExpectedTimestamp(MainThread, v)

SpecFormat == InitFormat /\ [][NextFormat]_vars

\* The statements of log_log after its entry: each returns, as the providers,
\* the console sink and the callbacks do.
Progress(t) ==
    \/ log_log_lock(t)
    \/ log_log_console(t)
    \/ \E ok \in BOOLEAN : log_print_printf(t, ok)
    \/ \E ok \in BOOLEAN : log_print_vprintf(t, ok)
    \/ log_log_callback(t)
    \/ log_log_unlock(t)

\* A thread logging on a configured logger whose mutex another party takes
\* and gives back between the calls.
NextTerminate ==
    \/ Dispatch(MainThread)
    \/ otherThreadLocks(MainThread)
    \/ otherThreadUnlocks(MainThread)

\* log_log is synchronous: a call that has been entered keeps executing.
SpecTerminate ==
    InitConcurrent /\ [][NextTerminate]_vars /\ WF_vars(Progress(MainThread))

\* A second thread of the program.
OtherThread == CHOOSE t \in Threads : t # MainThread

\* A logger with a Timestamp Provider and no Lock Provider.
InitUnlocked ==
    /\ logConfig = [lockData |-> NULL, lockFn |-> NULL, timestampFn |-> "getTimestamp",
                    level |-> LOG_TRACE, consoleLoggingDisabled |-> FALSE,
                    callbacks |-> [s \in Slots |-> EmptySlot]]
    /\ m_logIsLocked = FALSE
    /\ m_timestamp = U32Of(DEFAULT_EXPECTED_TIMESTAMP)
    /\ console = <<>>
    /\ pc = [t \in Threads |-> "idle"]
    /\ call = [t \in Threads |-> NoCall]
    /\ ev = [t \in Threads |-> NoEvent]
    /\ lockAcquired = [t \in Threads |-> FALSE]
    /\ result = [t \in Threads |-> 0]
    /\ printfResult = [t \in Threads |-> 0]
    /\ i = [t \in Threads |-> 0]
    /\ steps = [t \in Threads |-> <<>>]

\* Two threads calling log_log concurrently.
NextUnlocked == Dispatch(MainThread) \/ Dispatch(OtherThread)

SpecUnlocked == InitUnlocked /\ [][NextUnlocked]_vars

(* ------------------------------------------------------------------ *)
(* Properties                                                          *)
(* ------------------------------------------------------------------ *)

\* The calls of kind op thread t's log_log has made so far.
StepsOf(t, op) == SelectSeq(steps[t], LAMBDA st : st.op = op)

\* The calls thread t's log_log has made to a sink (console or callback).
SinkSteps(t) == SelectSeq(steps[t], LAMBDA st : st.op \in {"printf", "vprintf", "callback"})

\* What thread t's current call has written to the console.
ConsoleOf(t) == SelectSeq(console, LAMBDA w : w.thread = t)

\* Thread t is in a log_log call / at the return of one.
InLogLog(t) == call[t].op = "log_log"
Returned(t) == InLogLog(t) /\ pc[t] = "done"

LockInstalled == logConfig.lockFn # NULL

\* The Lock Provider was called to acquire and returned false.
AcquireFailed(t) == \E k \in 1..Len(steps[t]) : steps[t][k].op = "acquire" /\ steps[t][k].ret = 0

\* C1: when a Lock Provider is installed and its acquire call returns false,
\* log_log calls no sink for the event (no console write, no callback, whatever
\* the thresholds) and returns 0.
C1_LockDeniedNoSink ==
    \A t \in Threads :
        (InLogLog(t) /\ LockInstalled /\ AcquireFailed(t)) =>
            /\ pc[t] = "done"
            /\ SinkSteps(t) = <<>>
            /\ ConsoleOf(t) = <<>>
            /\ result[t] = 0

\* A call returned after a failed acquire although the console and a callback
\* were due for its event.
C1_Witness ==
    \E t \in Threads :
        /\ Returned(t) /\ LockInstalled /\ AcquireFailed(t)
        /\ ConsoleDue(logConfig, ev[t].level)
        /\ \E s \in Slots : CallbackDue(logConfig.callbacks[s], ev[t].level)

\* C2: a log_log call whose acquire succeeded calls the Lock Provider's release
\* exactly once, as its last step before it returns, on every path, and leaves
\* the lock free; a call whose acquire failed never calls release.
C2_ReleaseExactlyOnce ==
    \A t \in Threads :
        InLogLog(t) =>
            /\ (pc[t] # "done" \/ ~lockAcquired[t]) => StepsOf(t, "release") = <<>>
            /\ (pc[t] = "done" /\ lockAcquired[t] /\ LockInstalled) =>
                   /\ Len(StepsOf(t, "acquire")) = 1
                   /\ Len(StepsOf(t, "release")) = 1
                   /\ steps[t][Len(steps[t])].op = "release"
                   /\ ~m_logIsLocked

\* A call that acquired the lock returns after a failed console write, with a
\* registry in which no callback was due.
C2_Witness ==
    \E t \in Threads :
        /\ Returned(t) /\ LockInstalled /\ lockAcquired[t]
        /\ result[t] < 0
        /\ StepsOf(t, "callback") = <<>>

\* Thread t is between its successful acquire and its release.
InCritical(t) == pc[t] \in {"console", "printf", "vprintf", "callbacks"}

\* C3: with a mutual-exclusion Lock Provider installed, at most one log_log
\* caller at a time is between its successful acquire and its release.
C3_MutualExclusion ==
    LockInstalled => Cardinality({t \in Threads : InCritical(t)}) <= 1

\* One caller is in the callback fan-out while another has been turned away.
C3_Witness ==
    \E t1, t2 \in Threads :
        /\ t1 # t2
        /\ pc[t1] = "callbacks" /\ lockAcquired[t1]
        /\ Returned(t2) /\ AcquireFailed(t2)

\* The console writes (prefix, body) thread t's log_log has made.
ConsoleSteps(t) == SelectSeq(steps[t], LAMBDA st : st.op \in {"printf", "vprintf"})

\* The lines a call writes to the console when the sink accepts both writes.
WholeLine(t) ==
    <<[thread |-> t, part |-> "prefix", text |-> Prefix(ev[t])],
      [thread |-> t, part |-> "body", text |-> Format(ev[t].fmt, ev[t].args, 0).text]>>

\* log_log called the console sink for the prefix and then for the body, and
\* the console holds what the sink accepted.
ConsoleWritten(t) ==
    /\ Len(StepsOf(t, "printf")) = 1
    /\ Len(StepsOf(t, "vprintf")) = 1
    /\ (result[t] >= 0 => ConsoleOf(t) = WholeLine(t))

\* A dispatch: a log_log call that was granted the lock and has returned.
Dispatched(t) == Returned(t) /\ lockAcquired[t]

\* C4 as stated: for L1 >= L2, with the minimum L1 an event at L2 produces no
\* console output and an event at L1 or above does.
C4_Original ==
    \A t \in Threads :
        (Dispatched(t) /\ ~logConfig.consoleLoggingDisabled) =>
            /\ (logConfig.level >= ev[t].level) => ConsoleSteps(t) = <<>>
            /\ (ev[t].level >= logConfig.level) => ConsoleWritten(t)

\* C4, amended: for L1 > L2, with the minimum set to L1, the console enabled
\* and the lock granted, an event at L2 produces no console output, and an
\* event at L1 or above is written to the console.
C4_Amended ==
    \A t \in Threads :
        (Dispatched(t) /\ ~logConfig.consoleLoggingDisabled) =>
            /\ (logConfig.level > ev[t].level) =>
                   (ConsoleSteps(t) = <<>> /\ ConsoleOf(t) = <<>>)
            /\ (ev[t].level >= logConfig.level) => ConsoleWritten(t)

\* An event at exactly the minimum level, above TRACE, has been printed.
C4_Witness ==
    \E t \in Threads :
        /\ Dispatched(t) /\ ~logConfig.consoleLoggingDisabled
        /\ logConfig.level > LOG_TRACE
        /\ ev[t].level = logConfig.level
        /\ ConsoleOf(t) = WholeLine(t)

\* C5: with the lock granted, log_log writes to the console if and only if
\* console logging is enabled and the event level is at least the level set;
\* otherwise it prints nothing and returns 0.
C5_ConsoleIff ==
    \A t \in Threads :
        Dispatched(t) =>
            IF ~logConfig.consoleLoggingDisabled /\ ev[t].level >= logConfig.level
            THEN ConsoleWritten(t)
            ELSE ConsoleSteps(t) = <<>> /\ ConsoleOf(t) = <<>> /\ result[t] = 0

\* After log_off an event at or above the minimum level was dispatched and
\* nothing was printed.
C5_Witness ==
    \E t \in Threads :
        /\ Dispatched(t)
        /\ logConfig.consoleLoggingDisabled
        /\ ev[t].level >= logConfig.level
        /\ ConsoleOf(t) = <<>> /\ result[t] = 0

\* The invocations of the callback in slot s by thread t's log_log.
Invocations(t, s) ==
    SelectSeq(steps[t], LAMBDA st : st.op = "callback" /\ st.slot = s)

\* C6: the callback fan-out is filtered independently of the console: an
\* occupied entry whose threshold is <= the event level is invoked also when
\* the event is below the global minimum and when the console is disabled.
C6_FanOutIndependent ==
    \A t \in Threads :
        (Dispatched(t) /\ (logConfig.consoleLoggingDisabled \/ ev[t].level < logConfig.level)) =>
            \A s \in Slots :
                (logConfig.callbacks[s].cbFn # NULL
                    /\ logConfig.callbacks[s].cbLogLevel <= ev[t].level) =>
                        Invocations(t, s) # <<>>

\* A callback was invoked for an event below the global minimum while the
\* console was disabled, and nothing was printed.
C6_Witness ==
    \E t \in Threads :
        /\ Dispatched(t)
        /\ logConfig.consoleLoggingDisabled
        /\ ev[t].level < logConfig.level
        /\ ConsoleSteps(t) = <<>>
        /\ StepsOf(t, "callback") # <<>>

C8_DueExactlyOnce ==
    \A t \in Threads :
        Dispatched(t) =>
            \A s \in Slots :
                Len(Invocations(t, s)) =
                    IF logConfig.callbacks[s].cbFn # NULL
                          /\ logConfig.callbacks[s].cbLogLevel <= ev[t].level
                    THEN 1 ELSE 0

\* Of two entries, the one registered at DEBUG was invoked once for an event
\* at DEBUG and the one registered at INFO was not invoked.
C8_Witness ==
    \E t \in Threads :
        /\ Dispatched(t)
        /\ ev[t].level = LOG_DEBUG
        /\ \E s1, s2 \in Slots :
              /\ logConfig.callbacks[s1].cbFn # NULL
              /\ logConfig.callbacks[s1].cbLogLevel = LOG_DEBUG
              /\ Len(Invocations(t, s1)) = 1
              /\ logConfig.callbacks[s2].cbFn # NULL
              /\ logConfig.callbacks[s2].cbLogLevel = LOG_INFO
              /\ Len(Invocations(t, s2)) = 0

\* The timestamp of thread t's log_log call: what the provider returned, or 0.
CallTimestamp(t) ==
    IF StepsOf(t, "timestamp") = <<>> THEN U32Of(0) ELSE StepsOf(t, "timestamp")[1].ret

\* C9: every callback invocation receives the data pointer of its own registry
\* entry and an event with the timestamp, level, file and line of the log_log
\* call.
C9_OwnDataSameEvent ==
    \A t \in Threads :
        InLogLog(t) =>
            \A k \in 1..Len(steps[t]) :
                LET st == steps[t][k] IN
                st.op = "callback" =>
                    /\ st.fn = logConfig.callbacks[st.slot].cbFn
                    /\ st.data = logConfig.callbacks[st.slot].cbData
                    /\ st.ev.time = CallTimestamp(t)
                    /\ st.ev.level = call[t].level
                    /\ st.ev.file = call[t].file
                    /\ st.ev.line = call[t].line

\* Two callbacks with different data objects were invoked for one event that
\* carries the provider's timestamp.
C9_Witness ==
    \E t \in Threads :
        /\ Dispatched(t)
        /\ Len(StepsOf(t, "callback")) = 2
        /\ StepsOf(t, "callback")[1].data # StepsOf(t, "callback")[2].data
        /\ StepsOf(t, "callback")[2].ev.time = U32Of(DEFAULT_EXPECTED_TIMESTAMP)

\* C10: registering an identity that is already registered succeeds, leaves
\* the number of occupied slots unchanged and leaves exactly one entry of that
\* identity, carrying the new threshold.
C10_ReRegisterReplaces ==
    [][\A t \in Threads :
          (pc[t] = "idle" /\ call'[t].op = "register"
              /\ Matching(logConfig.callbacks, call'[t].cbFn, call'[t].cbData) # {}) =>
              /\ call'[t].registered
              /\ Cardinality(Occupied(logConfig'.callbacks))
                     = Cardinality(Occupied(logConfig.callbacks))
              /\ Cardinality(Matching(logConfig'.callbacks, call'[t].cbFn, call'[t].cbData)) = 1
              /\ \A s \in Matching(logConfig'.callbacks, call'[t].cbFn, call'[t].cbData) :
                     logConfig'.callbacks[s].cbLogLevel = call'[t].cbLogLevel
      ]_vars

\* An identity was registered again in a full registry, and the call returned
\* true.
C10_Witness ==
    \E t \in Threads :
        /\ pc[t] = "done" /\ call[t].op = "register"
        /\ call[t].finished /\ call[t].registered
        /\ Cardinality(Occupied(logConfig.callbacks)) = LOG_MAX_CALLBACKS

\* Thread t calls log_registerCallbackFn / log_unregisterCallbackFn in this step.
RegisterStep(t) == pc[t] = "idle" /\ call'[t].op = "register"
UnregisterStep(t) == pc[t] = "idle" /\ call'[t].op = "unregister"

\* The slots holding an identity other than (cbFn, cbData).
OtherEntries(cbs, cbFn, cbData) ==
    {s \in Slots : cbs[s].cbFn # NULL /\ ~(cbs[s].cbFn = cbFn /\ cbs[s].cbData = cbData)}

\* C11: when every slot holds an identity other than the one being registered
\* (a different callback, or the same callback with different data),
\* log_registerCallbackFn returns false and leaves every entry unchanged in
\* slot, data and threshold.
C11_FullRegistryRejects ==
    [][\A t \in Threads :
          (RegisterStep(t)
              /\ OtherEntries(logConfig.callbacks, call'[t].cbFn, call'[t].cbData) = Slots) =>
              /\ ~call'[t].registered
              /\ \A s \in Slots : logConfig'.callbacks[s] = logConfig.callbacks[s]
      ]_vars

\* A registration was refused by a registry that holds the same callback with
\* another data object and another callback with the same data object.
C11_Witness ==
    \E t \in Threads :
        /\ pc[t] = "done" /\ call[t].op = "register" /\ ~call[t].registered
        /\ OtherEntries(logConfig.callbacks, call[t].cbFn, call[t].cbData) = Slots
        /\ \E s \in Slots : /\ logConfig.callbacks[s].cbFn = call[t].cbFn
                            /\ logConfig.callbacks[s].cbData # call[t].cbData
        /\ \E s \in Slots : /\ logConfig.callbacks[s].cbFn # call[t].cbFn
                            /\ logConfig.callbacks[s].cbData = call[t].cbData

\* C12: log_registerCallbackFn returns false if and only if all slots are
\* occupied by identities different from the one being registered; with a free
\* slot, or with the identity already registered, it returns true.
C12_RegisterFalseIffFull ==
    [][\A t \in Threads :
          RegisterStep(t) =>
              (call'[t].registered
                  <=> \/ \E s \in Slots : logConfig.callbacks[s].cbFn = NULL
                      \/ \E s \in Slots : /\ logConfig.callbacks[s].cbFn = call'[t].cbFn
                                          /\ logConfig.callbacks[s].cbData = call'[t].cbData)
      ]_vars

\* A registration of a new identity took the last free slot and returned true.
C12_Witness ==
    \E t \in Threads :
        /\ pc[t] = "done" /\ call[t].op = "register"
        /\ call[t].registered /\ ~call[t].finished
        /\ Cardinality(Occupied(logConfig.callbacks)) = LOG_MAX_CALLBACKS

\* The identities held by the registry.
Registered(cbs) == {[cbFn |-> cbs[s].cbFn, cbData |-> cbs[s].cbData] : s \in Occupied(cbs)}

\* C13: log_unregisterCallbackFn( cb, data ) leaves no entry of (cb, data) and
\* every other entry in its slot with its data and threshold; an identity that
\* is not registered stays so until log_registerCallbackFn is called with it;
\* log_log invokes only registered entries, and every registered entry that is
\* due.
C13_UnregisteredNotInvoked ==
    /\ [][\A t \in Threads :
            UnregisterStep(t) =>
                /\ Matching(logConfig'.callbacks, call'[t].cbFn, call'[t].cbData) = {}
                /\ \A s \in OtherEntries(logConfig.callbacks, call'[t].cbFn, call'[t].cbData) :
                       logConfig'.callbacks[s] = logConfig.callbacks[s]
         ]_vars
    /\ [][\A id \in Registered(logConfig'.callbacks) \ Registered(logConfig.callbacks) :
            \E t \in Threads :
                RegisterStep(t) /\ call'[t].cbFn = id.cbFn /\ call'[t].cbData = id.cbData
         ]_vars
    /\ [](\A t \in Threads :
            InLogLog(t) =>
                /\ \A k \in 1..Len(steps[t]) :
                       steps[t][k].op = "callback" =>
                           [cbFn |-> steps[t][k].fn, cbData |-> steps[t][k].data]
                               \in Registered(logConfig.callbacks)
                /\ (pc[t] = "done" /\ lockAcquired[t]) =>
                       \A s \in Occupied(logConfig.callbacks) :
                           logConfig.callbacks[s].cbLogLevel <= ev[t].level =>
                               Len(Invocations(t, s)) = 1)

\* An entry was unregistered while another entry stayed in the second slot.
C13_Witness ==
    \E t \in Threads :
        /\ pc[t] = "done" /\ call[t].op = "unregister" /\ call[t].finished
        /\ Matching(logConfig.callbacks, call[t].cbFn, call[t].cbData) = {}
        /\ logConfig.callbacks[0].cbFn = NULL
        /\ Occupied(logConfig.callbacks) # {}

\* The slots whose entry differs between two registries.
ChangedSlots(before, after) == {s \in Slots : after[s] # before[s]}

\* C14: log_unregisterCallbackFn changes at most one slot, and called with an
\* identity that is not registered it changes none.
C14_UnregisterAtMostOne ==
    [][\A t \in Threads :
          UnregisterStep(t) =>
              LET changed == ChangedSlots(logConfig.callbacks, logConfig'.callbacks)
              IN  /\ Cardinality(changed) <= 1
                  /\ \A s \in changed :
                         /\ logConfig.callbacks[s].cbFn = call'[t].cbFn
                         /\ logConfig.callbacks[s].cbData = call'[t].cbData
                  /\ Cardinality(Occupied(logConfig'.callbacks))
                         >= Cardinality(Occupied(logConfig.callbacks)) - 1
      ]_vars

\* An identity that is not registered was unregistered from a full registry
\* holding the same callback and the same data object under other identities.
C14_Witness ==
    \E t \in Threads :
        /\ pc[t] = "done" /\ call[t].op = "unregister" /\ ~call[t].finished
        /\ Cardinality(Occupied(logConfig.callbacks)) = LOG_MAX_CALLBACKS
        /\ \E s \in Slots : logConfig.callbacks[s].cbFn = call[t].cbFn
        /\ \E s \in Slots : logConfig.callbacks[s].cbData = call[t].cbData

\* C15: the registry key is the pair (callback, data): registering or
\* unregistering (cb, d1) leaves every entry with another callback or another
\* data object as it is, and two entries of one callback with different data
\* objects are both invoked when due, each with its own data object.
C15_KeyIsPair ==
    /\ [][\A t \in Threads :
            (RegisterStep(t) \/ UnregisterStep(t)) =>
                \A s \in Slots :
                    (logConfig.callbacks[s].cbFn # NULL
                        /\ (logConfig.callbacks[s].cbFn # call'[t].cbFn
                               \/ logConfig.callbacks[s].cbData # call'[t].cbData)) =>
                        logConfig'.callbacks[s] = logConfig.callbacks[s]
         ]_vars
    /\ [](\A t \in Threads :
            Dispatched(t) =>
                \A s1, s2 \in Slots :
                    (/\ s1 # s2
                     /\ logConfig.callbacks[s1].cbFn # NULL
                     /\ logConfig.callbacks[s1].cbFn = logConfig.callbacks[s2].cbFn
                     /\ logConfig.callbacks[s1].cbData # logConfig.callbacks[s2].cbData
                     /\ logConfig.callbacks[s1].cbLogLevel <= ev[t].level) =>
                        /\ Len(Invocations(t, s1)) = 1
                        /\ Invocations(t, s1)[1].data = logConfig.callbacks[s1].cbData)

\* (cb, d1) was unregistered and the registry still holds (cb, d2).
C15_Witness ==
    \E t \in Threads :
        /\ pc[t] = "done" /\ call[t].op = "unregister" /\ call[t].finished
        /\ \E s \in Slots : /\ logConfig.callbacks[s].cbFn = call[t].cbFn
                            /\ logConfig.callbacks[s].cbData # call[t].cbData


\* The calls thread t's log_log made that were handed the event.
EventSteps(t) == SelectSeq(steps[t], LAMBDA st : st.op \in {"printf", "vprintf", "callback"})

\* The text thread t's current call has put on the console.
RECURSIVE Concat(_)
Concat(ws) == IF ws = <<>> THEN "" ELSE Head(ws).text \o Concat(Tail(ws))

Line(t) == Concat(ConsoleOf(t))

\* Both console writes of thread t's call succeeded.
BothWritten(t) ==
    /\ Len(ConsoleSteps(t)) = 2
    /\ \A k \in 1..2 : ConsoleSteps(t)[k].ret >= 0

\* C16: the event timestamp is 0 when no Timestamp Provider is installed and
\* otherwise the value the provider returns, read once per call; the console
\* prefix is written from that value and every callback receives it.
C16_TimestampZeroOrProvider ==
    \A t \in Threads :
        InLogLog(t) =>
            LET expected == IF logConfig.timestampFn = NULL THEN U32Of(0) ELSE m_timestamp
            IN  /\ ev[t].time = expected
                /\ Len(StepsOf(t, "timestamp")) = (IF logConfig.timestampFn = NULL THEN 0 ELSE 1)
                /\ \A k \in 1..Len(EventSteps(t)) : EventSteps(t)[k].ev.time = expected
                /\ \A k \in 1..Len(ConsoleOf(t)) :
                       ConsoleOf(t)[k].part = "prefix" =>
                           ConsoleOf(t)[k].text = Prefix([ev[t] EXCEPT !.time = expected])

\* With no provider installed and the timestamp source at a non-zero value, an
\* event was printed with timestamp 0 and handed to a callback with timestamp 0.
C16_Witness ==
    \E t \in Threads :
        /\ Dispatched(t)
        /\ logConfig.timestampFn = NULL
        /\ m_timestamp # U32Of(0)
        /\ BothWritten(t)
        /\ ev[t].level = LOG_INFO /\ ev[t].file = "x.c"
        /\ ConsoleOf(t)[1].text = "       0 INFO  x.c:42: "
        /\ StepsOf(t, "callback") # <<>>
        /\ StepsOf(t, "callback")[1].ev.time = U32Of(0)

\* The timestamp and level fields of the prefix, written out.
ExpectedTimestampField(time) ==
    CASE time = U32Of(0) -> "       0"
      [] time = U32Of(DEFAULT_EXPECTED_TIMESTAMP) -> "   12345"
      [] time = U32Of(99999999) -> "99999999"
      [] time = U32Of(100000000) -> "100000000"
      [] time = UINT32_MAX -> "4294967295"

ExpectedLevelField == <<"TRACE", "DEBUG", "INFO ", "WARN ", "ERROR", "FATAL">>

\* The line of a call whose two console writes succeeded is the timestamp
\* field, a space, the level field, a space, file:line: and the body.
LineFormat(t) ==
    (Returned(t) /\ BothWritten(t)) =>
        Line(t) = ExpectedTimestampField(ev[t].time) \o " "
                      \o ExpectedLevelField[ev[t].level + 1] \o " "
                      \o ev[t].file \o ":" \o ToString(ev[t].line) \o ": "
                      \o Format(ev[t].fmt, ev[t].args, 0).text

\* Thread t's call is the event (12345, TRACE, "x.c", 42) with format fmt and
\* argument 48, and both console writes succeeded.
ExampleEvent(t, fmt) ==
    /\ Returned(t) /\ BothWritten(t)
    /\ ev[t].time = U32Of(DEFAULT_EXPECTED_TIMESTAMP)
    /\ ev[t].level = LOG_TRACE
    /\ ev[t].file = "x.c" /\ ev[t].line = 42
    /\ ev[t].fmt = fmt /\ ev[t].args = <<48>>

\* C17 as stated: the line has the prefix format, and the line for the event
\* (12345, TRACE, "x.c", 42, "v=%d", [48]) is "   12345 TRACE x.c:42: v=48\n".
C17_Original ==
    \A t \in Threads :
        /\ LineFormat(t)
        /\ ExampleEvent(t, <<"v=", "%d">>) => Line(t) = "   12345 TRACE x.c:42: v=48\n"

\* C17, amended: the line has the prefix format; the line for the event
\* (12345, TRACE, "x.c", 42, "v=%d\n", [48]) is "   12345 TRACE x.c:42: v=48\n",
\* and with the format "v=%d" it is "   12345 TRACE x.c:42: v=48", without a
\* newline.
C17_Amended ==
    \A t \in Threads :
        /\ LineFormat(t)
        /\ ExampleEvent(t, <<"v=", "%d", "\n">>) => Line(t) = "   12345 TRACE x.c:42: v=48\n"
        /\ ExampleEvent(t, <<"v=", "%d">>) => Line(t) = "   12345 TRACE x.c:42: v=48"

\* The example event was printed from the format "v=%d\n", and the line ends
\* with the newline of the format.
C17_Witness ==
    \E t \in Threads :
        /\ ExampleEvent(t, <<"v=", "%d", "\n">>)
        /\ Line(t) = "   12345 TRACE x.c:42: v=48\n"

\* C18: the prefix begins with all decimal digits of the timestamp, padded on
\* the left with spaces only when there are fewer than 8; the timestamp
\* 4294967295 takes exactly 10 characters.
C18_TimestampWidthIsMinimum ==
    \A t \in Threads :
        \A k \in 1..Len(ConsoleOf(t)) :
            ConsoleOf(t)[k].part = "prefix" =>
                LET rest == " " \o ExpectedLevelField[ev[t].level + 1] \o " "
                                \o ev[t].file \o ":" \o ToString(ev[t].line) \o ": "
                IN  /\ ConsoleOf(t)[k].text = ExpectedTimestampField(ev[t].time) \o rest
                    /\ ev[t].time = UINT32_MAX =>
                           /\ ConsoleOf(t)[k].text = "4294967295" \o rest
                           /\ Len(ConsoleOf(t)[k].text) = 10 + Len(rest)

\* An event with timestamp 4294967295 was printed.
C18_Witness ==
    \E t \in Threads :
        /\ Returned(t) /\ BothWritten(t)
        /\ ev[t].time = UINT32_MAX
        /\ ev[t].level = LOG_FATAL /\ ev[t].file = "x.c"
        /\ ConsoleOf(t)[1].text = "4294967295 FATAL x.c:42: "

\* C19: when both console writes succeed log_log returns the number of
\* characters of the prefix plus that of the body; when the lock is denied,
\* the console is disabled or the level is below the minimum it writes nothing
\* and returns 0, whatever callbacks were invoked.
C19_ReturnsLineLength ==
    \A t \in Threads :
        Returned(t) =>
            /\ BothWritten(t) =>
                   /\ Len(ConsoleOf(t)) = 2
                   /\ ConsoleOf(t)[1].part = "prefix" /\ ConsoleOf(t)[2].part = "body"
                   /\ result[t] = Len(ConsoleOf(t)[1].text) + Len(ConsoleOf(t)[2].text)
                   /\ result[t] = Len(Line(t))
            /\ (~lockAcquired[t] \/ logConfig.consoleLoggingDisabled
                    \/ ev[t].level < logConfig.level) =>
                   (ConsoleOf(t) = <<>> /\ result[t] = 0)

\* A call printed its line and returned the line's length; another kind of
\* call is covered by the witnesses of C1 and C5.
C19_Witness ==
    \E t \in Threads :
        /\ Dispatched(t) /\ BothWritten(t)
        /\ ConsoleOf(t) = WholeLine(t)
        /\ result[t] = Len(Line(t))
        /\ result[t] > Len(ConsoleOf(t)[1].text)
        /\ Len(StepsOf(t, "callback")) = 1

\* The console sink returned a negative value to thread t's call.
ConsoleFailed(t) ==
    \E k \in 1..Len(ConsoleSteps(t)) : ConsoleSteps(t)[k].ret < 0

\* C20: a call with a failed console write goes on: when it returns, every
\* due callback has been invoked once, the lock has been released and the
\* return value is negative; the return value is negative in no other case.
C20_ConsoleFailureNoAbort ==
    \A t \in Threads :
        Returned(t) =>
            /\ result[t] < 0 <=> ConsoleFailed(t)
            /\ ConsoleFailed(t) =>
                   /\ lockAcquired[t]
                   /\ Len(ConsoleSteps(t)) = 2
                   /\ \A s \in Slots :
                          (logConfig.callbacks[s].cbFn # NULL
                              /\ logConfig.callbacks[s].cbLogLevel <= ev[t].level) =>
                              Len(Invocations(t, s)) = 1
                   /\ LockInstalled =>
                          /\ Len(StepsOf(t, "release")) = 1
                          /\ steps[t][Len(steps[t])].op = "release"
                          /\ ~m_logIsLocked

\* The write of the prefix failed and that of the body succeeded; two
\* callbacks were invoked afterwards, the lock was released and the call
\* returned a negative value.
C20_Witness ==
    \E t \in Threads :
        /\ Dispatched(t) /\ LockInstalled
        /\ Len(ConsoleSteps(t)) = 2
        /\ ConsoleSteps(t)[1].ret < 0 /\ ConsoleSteps(t)[2].ret >= 0
        /\ Len(StepsOf(t, "callback")) = 2
        /\ Len(StepsOf(t, "release")) = 1
        /\ result[t] < 0

\* C21: every sink that formats the body (the console's body write and each
\* invoked callback) is handed a cursor at the first format argument, and the
\* cursor is closed whenever log_log is between two sinks.
C21_FreshCursorPerSink ==
    \A t \in Threads :
        InLogLog(t) =>
            /\ \A k \in 1..Len(steps[t]) :
                   steps[t][k].op \in {"printf", "vprintf", "callback"} =>
                       steps[t][k].ev.ap = 0
            /\ ev[t].ap = (IF pc[t] \in {"printf", "vprintf"} THEN 0 ELSE ApClosed)
            /\ (pc[t] = "done" /\ BothWritten(t)) =>
                   ConsoleOf(t)[2].text = Format(ev[t].fmt, ev[t].args, 0).text

\* The console and two callbacks were handed the arguments of one event, and
\* the cursor is closed at the return.
C21_Witness ==
    \E t \in Threads :
        /\ Dispatched(t) /\ BothWritten(t)
        /\ Len(StepsOf(t, "callback")) = 2
        /\ \A k \in 1..2 : StepsOf(t, "callback")[k].ev.ap = 0
        /\ StepsOf(t, "vprintf")[1].ev.ap = 0
        /\ ev[t].args # <<>>
        /\ ev[t].ap = ApClosed


\* The callbacks of a dispatch are called in ascending slot index, each with
\* the function and data of the slot it is called for.
InvokedInSlotOrder(t) ==
    LET cbSteps == StepsOf(t, "callback")
    IN  /\ \A j, k \in 1..Len(cbSteps) : j < k => cbSteps[j].slot < cbSteps[k].slot
        /\ \A k \in 1..Len(cbSteps) :
               /\ cbSteps[k].fn = logConfig.callbacks[cbSteps[k].slot].cbFn
               /\ cbSteps[k].data = logConfig.callbacks[cbSteps[k].slot].cbData

\* C22 as stated: the due callbacks are invoked in the order of their (last)
\* registration.  log_log invokes in slot order, and the identity a register
\* call has just installed is the last registered, so the statement requires
\* every successful register call to leave its identity above all others.
C22_Original ==
    /\ [](\A t \in Threads : InLogLog(t) => InvokedInSlotOrder(t))
    /\ [][\A t \in Threads :
            (RegisterStep(t) /\ call'[t].registered) =>
                \A s \in Matching(logConfig'.callbacks, call'[t].cbFn, call'[t].cbData),
                   u \in OtherEntries(logConfig'.callbacks, call'[t].cbFn, call'[t].cbData) :
                    u < s
         ]_vars

\* C22, amended: the due callbacks are invoked in ascending slot index, and a
\* successful register call puts its identity in the lowest-indexed slot that
\* is empty or held by that identity, wherever the other identities are.
C22_Amended ==
    /\ [](\A t \in Threads : InLogLog(t) => InvokedInSlotOrder(t))
    /\ [][\A t \in Threads :
            (RegisterStep(t) /\ call'[t].registered) =>
                \A s \in Matching(logConfig'.callbacks, call'[t].cbFn, call'[t].cbData),
                   u \in Slots :
                    (logConfig.callbacks[u].cbFn = NULL
                        \/ u \in Matching(logConfig.callbacks, call'[t].cbFn, call'[t].cbData))
                        => s <= u
         ]_vars

\* A new identity has just been registered into the first slot while the
\* second slot holds an identity registered before it.
C22_Witness ==
    \E t \in Threads :
        /\ pc[t] = "done" /\ call[t].op = "register"
        /\ call[t].registered /\ ~call[t].finished
        /\ 0 \in Matching(logConfig.callbacks, call[t].cbFn, call[t].cbData)
        /\ 1 \in OtherEntries(logConfig.callbacks, call[t].cbFn, call[t].cbData)

\* No register or unregister call moves an entry of an identity other than
\* the one it is called with.
OthersStay(t) ==
    \A s \in OtherEntries(logConfig.callbacks, call'[t].cbFn, call'[t].cbData) :
        logConfig'.callbacks[s] = logConfig.callbacks[s]

\* C23 as stated: re-registering a registered identity leaves its entry in
\* the slot it occupied, and no register or unregister call moves an entry.
C23_Original ==
    [][\A t \in Threads :
          /\ (RegisterStep(t) \/ UnregisterStep(t)) => OthersStay(t)
          /\ (RegisterStep(t)
                 /\ Matching(logConfig.callbacks, call'[t].cbFn, call'[t].cbData) # {}) =>
                 Matching(logConfig'.callbacks, call'[t].cbFn, call'[t].cbData)
                     = Matching(logConfig.callbacks, call'[t].cbFn, call'[t].cbData)
      ]_vars

\* C23, amended: re-registering a registered identity leaves its entry in its
\* slot when no lower-indexed slot is empty and otherwise moves it to the
\* lowest-indexed empty slot; no register or unregister call moves an entry of
\* another identity.
C23_Amended ==
    [][\A t \in Threads :
          /\ (RegisterStep(t) \/ UnregisterStep(t)) => OthersStay(t)
          /\ (RegisterStep(t)
                 /\ Matching(logConfig.callbacks, call'[t].cbFn, call'[t].cbData) # {}) =>
                 \A old \in Matching(logConfig.callbacks, call'[t].cbFn, call'[t].cbData) :
                     LET lower == {u \in Slots : u < old /\ logConfig.callbacks[u].cbFn = NULL}
                     IN  Matching(logConfig'.callbacks, call'[t].cbFn, call'[t].cbData)
                             = (IF lower = {} THEN {old} ELSE {Min(lower)})
      ]_vars

\* An identity that was in the second slot has been registered again and is
\* now in the first slot.
C23_Witness ==
    \E t \in Threads :
        /\ pc[t] = "done" /\ call[t].op = "register"
        /\ call[t].registered /\ call[t].finished
        /\ call[t].foundAt = 1
        /\ Matching(logConfig.callbacks, call[t].cbFn, call[t].cbData) = {0}


\* C27: a successful log_registerCallbackFn clears the entry of the identity,
\* if there is one, and writes the new entry to the lowest-indexed slot that
\* is then empty; every other slot is left as it was.
C27_RemoveThenFirstEmpty ==
    [][\A t \in Threads :
          (RegisterStep(t) /\ call'[t].registered) =>
              LET removed == [s \in Slots |->
                                 IF s \in Matching(logConfig.callbacks, call'[t].cbFn,
                                                   call'[t].cbData)
                                 THEN EmptySlot ELSE logConfig.callbacks[s]]
                  target == Min({s \in Slots : removed[s].cbFn = NULL})
              IN  \A s \in Slots :
                      logConfig'.callbacks[s] =
                          IF s = target
                          THEN [cbFn |-> call'[t].cbFn, cbData |-> call'[t].cbData,
                                cbLogLevel |-> call'[t].cbLogLevel]
                          ELSE removed[s]
      ]_vars

\* A new identity was registered into an empty registry: the first of several
\* empty slots holds it and no other slot was written.
C27_Witness ==
    \E t \in Threads :
        /\ pc[t] = "done" /\ call[t].op = "register"
        /\ call[t].registered /\ ~call[t].finished
        /\ Occupied(logConfig.callbacks) = {0}
        /\ Cardinality(Slots \ Occupied(logConfig.callbacks)) >= 1

\* The fields of logConfig a step changes.
ChangedFields ==
    {f \in {"lockData", "lockFn", "timestampFn", "level", "consoleLoggingDisabled",
            "callbacks"} : logConfig'[f] # logConfig[f]}

\* C28: no configuration function calls the Lock Provider: a step that changes
\* the configuration or the registry leaves the mutex and the log of provider
\* calls as they are; a setter changes only its own field (log_setLockFn the
\* lock function and its data), and the registry functions change only the
\* registry.
C28_ConfigurationUnlocked ==
    [][(ChangedFields # {} \/ \E t \in Threads : RegisterStep(t) \/ UnregisterStep(t)) =>
          /\ m_logIsLocked' = m_logIsLocked
          /\ steps' = steps
          /\ console' = console
          /\ IF \E t \in Threads : RegisterStep(t) \/ UnregisterStep(t)
             THEN ChangedFields \subseteq {"callbacks"}
             ELSE \/ ChangedFields \subseteq {"lockFn", "lockData"}
                  \/ ChangedFields = {"timestampFn"}
                  \/ ChangedFields = {"level"}
                  \/ ChangedFields = {"consoleLoggingDisabled"}
      ]_vars

\* A callback was registered while the installed mutex was held by another
\* party.
C28_Witness ==
    \E t \in Threads :
        /\ pc[t] = "done" /\ call[t].op = "register" /\ call[t].registered
        /\ LockInstalled /\ m_logIsLocked
        /\ logConfig.level # LOG_TRACE /\ logConfig.consoleLoggingDisabled

\* C30: with the registry functions called one at a time, no two occupied
\* slots hold the same (callback, data) identity and at most LOG_MAX_CALLBACKS
\* slots are occupied.
C30_NoDuplicateIdentity ==
    /\ \A s1, s2 \in Occupied(logConfig.callbacks) :
           s1 # s2 =>
               \/ logConfig.callbacks[s1].cbFn # logConfig.callbacks[s2].cbFn
               \/ logConfig.callbacks[s1].cbData # logConfig.callbacks[s2].cbData
    /\ Cardinality(Occupied(logConfig.callbacks)) <= LOG_MAX_CALLBACKS
    /\ DOMAIN logConfig.callbacks = Slots

\* An identity was registered again while the registry holds the same
\* callback with another data object; the registry holds each once.
C30_Witness ==
    \E t \in Threads :
        /\ pc[t] = "done" /\ call[t].op = "register"
        /\ call[t].registered /\ call[t].finished
        /\ Cardinality(Matching(logConfig.callbacks, call[t].cbFn, call[t].cbData)) = 1
        /\ \E s \in Slots : /\ logConfig.callbacks[s].cbFn = call[t].cbFn
                            /\ logConfig.callbacks[s].cbData # call[t].cbData


\* The position of a collaborator call in the order of log_log.
Rank(op) ==
    CASE op = "timestamp" -> 1
      [] op = "acquire" -> 2
      [] op = "printf" -> 3
      [] op = "vprintf" -> 4
      [] op = "callback" -> 5
      [] op = "release" -> 6

\* C24: the calls of one log_log are made in the order timestamp read, lock
\* acquire, console prefix, console body, callbacks in ascending slot index,
\* lock release; a sink is called only after a successful acquire and never
\* after the release.
C24_StepOrder ==
    \A t \in Threads :
        InLogLog(t) =>
            /\ \A j, k \in 1..Len(steps[t]) :
                   j < k =>
                       IF steps[t][j].op = "callback" /\ steps[t][k].op = "callback"
                       THEN steps[t][j].slot < steps[t][k].slot
                       ELSE Rank(steps[t][j].op) < Rank(steps[t][k].op)
            /\ logConfig.timestampFn # NULL => steps[t][1].op = "timestamp"
            /\ SinkSteps(t) # <<>> =>
                   /\ lockAcquired[t]
                   /\ LockInstalled =>
                          \E k \in 1..Len(steps[t]) :
                              steps[t][k].op = "acquire" /\ steps[t][k].ret = 1
            /\ StepsOf(t, "release") # <<>> =>
                   (pc[t] = "done" /\ steps[t][Len(steps[t])].op = "release")

\* A call made all seven kinds of step: timestamp, acquire, prefix, body, the
\* callbacks of slots 0 and 1, release.
C24_Witness ==
    \E t \in Threads :
        /\ Returned(t)
        /\ Len(steps[t]) = 7
        /\ steps[t][1].op = "timestamp" /\ steps[t][2].op = "acquire"
        /\ steps[t][3].op = "printf" /\ steps[t][4].op = "vprintf"
        /\ steps[t][5].op = "callback" /\ steps[t][5].slot = 0
        /\ steps[t][6].op = "callback" /\ steps[t][6].slot = 1
        /\ steps[t][7].op = "release"

\* C25: a log_log call makes one acquire attempt and repeats no step; what
\* its sinks are handed is the event of that call, and nothing of an event is
\* kept when the call has returned, so a dropped event reaches no sink later.
C25_NoRetryNoBuffer ==
    \A t \in Threads :
        /\ InLogLog(t) =>
               /\ Len(StepsOf(t, "acquire")) =
                      (IF LockInstalled /\ pc[t] # "lock" THEN 1 ELSE 0)
               /\ \A op \in {"timestamp", "printf", "vprintf", "release"} :
                      Len(StepsOf(t, op)) <= 1
               /\ \A s \in Slots : Len(Invocations(t, s)) <= 1
               /\ AcquireFailed(t) => (SinkSteps(t) = <<>> /\ ConsoleOf(t) = <<>>)
               /\ \A k \in 1..Len(SinkSteps(t)) :
                      /\ SinkSteps(t)[k].ev.level = call[t].level
                      /\ SinkSteps(t)[k].ev.file = call[t].file
                      /\ SinkSteps(t)[k].ev.line = call[t].line
               /\ \A k \in 1..Len(ConsoleOf(t)) :
                      ConsoleOf(t)[k].text \in
                          {Prefix(ev[t]), Format(ev[t].fmt, ev[t].args, 0).text}
        /\ pc[t] = "idle" =>
               (ev[t] = NoEvent /\ steps[t] = <<>> /\ ConsoleOf(t) = <<>>)

\* A call whose only acquire attempt failed has returned having made no
\* further call.
C25_Witness ==
    \E t \in Threads :
        /\ Returned(t) /\ AcquireFailed(t)
        /\ Len(StepsOf(t, "acquire")) = 1
        /\ steps[t][Len(steps[t])].op = "acquire"
        /\ ev[t].level = LOG_FATAL


\* C26: every log_log call returns: it makes at most one acquire attempt, is
\* then either dropped without calling a sink or dispatches with at most one
\* console line and at most LOG_MAX_CALLBACKS callback invocations, and
\* reaches its return.
C26_Terminates ==
    /\ [](\A t \in Threads :
            InLogLog(t) =>
                /\ Len(StepsOf(t, "acquire")) <= 1
                /\ Len(StepsOf(t, "printf")) <= 1
                /\ Len(StepsOf(t, "vprintf")) <= 1
                /\ Len(StepsOf(t, "callback")) <= LOG_MAX_CALLBACKS
                /\ (pc[t] = "done" /\ ~lockAcquired[t]) => SinkSteps(t) = <<>>)
    /\ \A t \in Threads : (pc[t] = "lock") ~> (pc[t] = "done")

\* A dropped call has returned while the logger has a console line and two
\* callbacks due for its event.
C26_Witness ==
    \E t \in Threads :
        /\ Returned(t) /\ ~lockAcquired[t]
        /\ SinkSteps(t) = <<>>
        /\ ~logConfig.consoleLoggingDisabled /\ ev[t].level >= logConfig.level
        /\ \A s \in {0, 1} : logConfig.callbacks[s].cbLogLevel <= ev[t].level

\* C29: with no Lock Provider installed every concurrent caller of log_log is
\* let into the sinks at once (lock() succeeds without any provider call), so
\* the console writes of two calls can interleave.
C29_NoProviderNoExclusion ==
    ~LockInstalled =>
        \A t \in Threads :
            (InLogLog(t) /\ pc[t] # "lock") =>
                /\ lockAcquired[t]
                /\ StepsOf(t, "acquire") = <<>>
                /\ ~m_logIsLocked

\* The console holds the prefix of one event, then the prefix of another
\* event, then the body of the first.
C29_Witness ==
    \E t1, t2 \in Threads :
        /\ t1 # t2
        /\ ~LockInstalled
        /\ InLogLog(t1) /\ InLogLog(t2)
        /\ ev[t1].level # ev[t2].level
        /\ Len(console) = 3
        /\ console[1] = [thread |-> t1, part |-> "prefix", text |-> Prefix(ev[t1])]
        /\ console[2] = [thread |-> t2, part |-> "prefix", text |-> Prefix(ev[t2])]
        /\ console[3].thread = t1 /\ console[3].part = "body"


\* C31: log_log never modifies the logger configuration: every step of a
\* log_log call, from its entry to its return, whether the call is dropped,
\* filtered or delivered, leaves the minimum level, the console flag, the lock
\* and timestamp provider handles and every registry slot as they were.
C31_LogLogKeepsConfiguration ==
    [][(\E t \in Threads : call'[t].op = "log_log" \/ call[t].op = "log_log")
          => logConfig' = logConfig]_vars

\* A delivered call that has returned, with both console writes and every
\* callback made, on a logger whose level, providers and registry have been set.
C31_Witness ==
    \E t \in Threads :
        /\ Dispatched(t)
        /\ Len(StepsOf(t, "callback")) = LOG_MAX_CALLBACKS
        /\ Len(ConsoleSteps(t)) = 2
        /\ logConfig.level = LOG_DEBUG
        /\ logConfig.lockFn # NULL
        /\ logConfig.timestampFn # NULL
        /\ ~logConfig.consoleLoggingDisabled


(* ------------------------------------------------------------------ *)
(* Registration with a null callback reference                         *)
(* ------------------------------------------------------------------ *)

\* The arguments an application can pass as (callback, data): the pairs it
\* registers and a null callback reference, with and without data.
NullableIds ==
    CallbackIds \cup { [cbFn |-> NULL, cbData |-> d] : d \in {NULL, "m_callback1Data"} }

\* An application registering, unregistering and logging, that may pass a null
\* callback reference.
NextNullable ==
    \/ \E id \in NullableIds, level \in CallbackLevels :
           log_registerCallbackFn(MainThread, id.cbFn, id.cbData, level)
    \/ \E id \in NullableIds : log_unregisterCallbackFn(MainThread, id.cbFn, id.cbData)
    \/ Dispatch(MainThread)

SpecNullable == Init /\ [][NextNullable]_vars

\* The occupied slots carrying the identity (cbFn, cbData) with threshold level.
Carrying(cbs, cbFn, cbData, level) ==
    {s \in Occupied(cbs) : cbs[s] = [cbFn |-> cbFn, cbData |-> cbData, cbLogLevel |-> level]}

\* C32: whenever log_registerCallbackFn returns true, for every callback
\* argument including a null callback reference, the registry afterwards holds
\* exactly one occupied slot carrying that (callback, data) identity with the
\* given threshold; and log_log never calls through a null callback reference.
C32_RegisterTrueMeansRegistered ==
    /\ [][\A t \in Threads :
            (RegisterStep(t) /\ call'[t].registered) =>
                Cardinality(Carrying(logConfig'.callbacks, call'[t].cbFn, call'[t].cbData,
                                     call'[t].cbLogLevel)) = 1]_vars
    /\ [](\A t \in Threads : \A k \in 1..Len(steps[t]) :
            steps[t][k].op = "callback" => steps[t][k].fn # NULL)


(* ------------------------------------------------------------------ *)
(* Levels outside the enumeration                                      *)
(* ------------------------------------------------------------------ *)

\* How far beyond LOG_TRACE..LOG_FATAL the int levels passed by a caller reach.
MaxOutOfRange == 1

\* The int values a caller passes as a level.
IntLevels == (LOG_TRACE - MaxOutOfRange)..(LOG_FATAL + MaxOutOfRange)

\* An application passing any int as the level of an event and as the minimum
\* level.
NextAnyLevel ==
    \/ \E level \in IntLevels : log_setLevel(MainThread, level)
    \/ log_off(MainThread)
    \/ log_on(MainThread)
    \/ \E level \in IntLevels, site \in CallSites : log_log_entry(MainThread, level, site)
    \/ Dispatch(MainThread)

SpecAnyLevel == Init /\ [][NextAnyLevel]_vars

\* C33: for every log_log call that reaches the console formatter, the level
\* used to index the six-entry level-name table is within 0..5, for any int
\* level a caller can pass and any int minimum set by log_setLevel.
C33_LevelIndexInRange ==
    \A t \in Threads :
        pc[t] = "printf" => (ev[t].level >= LOG_TRACE /\ ev[t].level <= LOG_FATAL)


(* ------------------------------------------------------------------ *)
(* Atomicity of the emission of one event                              *)
(* ------------------------------------------------------------------ *)

\* The console writes of each call are adjacent: no write of another thread
\* lies between two writes of the same call.
Contiguous ==
    \A j, k, l \in 1..Len(console) :
        (j < k /\ k < l /\ console[j].thread = console[l].thread) =>
            console[k].thread = console[j].thread

\* Thread t has called a sink (console or callback) for its event and has not
\* finished emitting it.
Emitting(t) == Len(SinkSteps(t)) > 0 /\ pc[t] # "done"

\* C34: with a mutual-exclusion Lock Provider installed, the console output of
\* concurrent callers is a concatenation of whole lines, the prefix of an
\* event immediately followed by the body of the same event, and no sink call
\* (console write or callback invocation) of one event happens between the
\* console write and the callbacks of another event.
C34_EmissionAtomic ==
    LockInstalled =>
        /\ Contiguous
        /\ \A t \in Threads :
              (Len(ConsoleOf(t)) = 2 \/ (Returned(t) /\ Len(ConsoleSteps(t)) = 2
                                         /\ result[t] >= 0)) =>
                  ConsoleOf(t) = WholeLine(t)
        /\ \A t, u \in Threads : (Emitting(t) /\ Emitting(u)) => t = u

\* Two callers have written a whole line each, one after the other, and the
\* second is in its callback fan-out after the first has finished.
C34_Witness ==
    \E t, u \in Threads :
        /\ t # u
        /\ LockInstalled
        /\ console = WholeLine(t) \o WholeLine(u)
        /\ Returned(t) /\ Len(StepsOf(t, "callback")) > 0
        /\ pc[u] = "callbacks" /\ Len(StepsOf(u, "callback")) > 0


(* ------------------------------------------------------------------ *)
(* A clock and a blocking mutex                                        *)
(* ------------------------------------------------------------------ *)

\* The number of ticks of the clock that are followed.
MaxTime == 2

\* A logger with a clock as Timestamp Provider and a mutex as Lock Provider.
InitOrdered ==
    /\ logConfig = [lockData |-> "m_logIsLocked", lockFn |-> "setLockState",
                    timestampFn |-> "getTimestamp",
                    level |-> LOG_TRACE, consoleLoggingDisabled |-> FALSE,
                    callbacks |-> [s \in Slots |-> EmptySlot]]
    /\ m_logIsLocked = FALSE
    /\ m_timestamp = U32Of(0)
    /\ console = <<>>
    /\ pc = [t \in Threads |-> "idle"]
    /\ call = [t \in Threads |-> NoCall]
    /\ ev = [t \in Threads |-> NoEvent]
    /\ lockAcquired = [t \in Threads |-> FALSE]
    /\ result = [t \in Threads |-> 0]
    /\ printfResult = [t \in Threads |-> 0]
    /\ i = [t \in Threads |-> 0]
    /\ steps = [t \in Threads |-> <<>>]

\* The clock behind the Timestamp Provider advances: a monotonic counter.
timeAdvances ==
    /\ \E n \in 0..(MaxTime - 1) :
         /\ m_timestamp = U32Of(n)
         /\ m_timestamp' = U32Of(n + 1)
    /\ UNCHANGED <<logConfig, m_logIsLocked, console, pc, call, localVars>>

\* log_log with a Lock Provider that blocks: the call to lockFn( true, .. )
\* returns only once the mutex is free, and has then acquired it.
BlockingDispatch(t) == Dispatch(t) /\ (pc[t] = "lock" => ~m_logIsLocked)

\* Two threads logging while the clock advances.
NextOrdered ==
    \/ timeAdvances
    \/ BlockingDispatch(MainThread)
    \/ BlockingDispatch(OtherThread)

SpecOrdered == InitOrdered /\ [][NextOrdered]_vars

\* a <= b for uint32_t values.
U32Leq(a, b) == a.hi < b.hi \/ (a.hi = b.hi /\ a.lo <= b.lo)

\* C35: with a monotonic Timestamp Provider and a blocking mutual-exclusion
\* Lock Provider, the events written to the console by concurrent callers
\* appear in non-decreasing timestamp order.
C35_ConsoleInTimestampOrder ==
    \A j, k \in 1..Len(console) :
        (j < k /\ console[j].part = "prefix" /\ console[k].part = "prefix") =>
            U32Leq(ev[console[j].thread].time, ev[console[k].thread].time)


(* ------------------------------------------------------------------ *)
(* Registration racing with a dispatch                                 *)
(* ------------------------------------------------------------------ *)

\* The loop of log_registerCallbackFn: the first empty slot takes the entry.
insertCallbackFn(cbs, cbFn, cbData, cbLogLevel) ==
    LET free == {s \in Slots : cbs[s].cbFn = NULL}
    IN  IF free = {} THEN [callbacks |-> cbs, registered |-> FALSE]
        ELSE [callbacks |-> [cbs EXCEPT ![Min(free)] =
                                [cbFn |-> cbFn, cbData |-> cbData, cbLogLevel |-> cbLogLevel]],
              registered |-> TRUE]

\* log_registerCallbackFn, first statement: the call of log_unregisterCallbackFn.
log_registerCallbackFn_remove(t, cbFn, cbData, cbLogLevel) ==
    /\ pc[t] = "idle"
    /\ LET r == unregisterCallbackFn(logConfig.callbacks, cbFn, cbData)
       IN  /\ logConfig' = [logConfig EXCEPT !.callbacks = r.callbacks]
           /\ call' = [call EXCEPT ![t] =
                  [NoCall EXCEPT !.op = "register", !.cbFn = cbFn, !.cbData = cbData,
                                 !.cbLogLevel = cbLogLevel, !.finished = r.finished,
                                 !.foundAt = FoundAt(logConfig.callbacks, cbFn, cbData)]]
    /\ pc' = [pc EXCEPT ![t] = "insert"]
    /\ UNCHANGED <<envVars, console, localVars>>

\* log_registerCallbackFn, the loop that follows and the return.
log_registerCallbackFn_insert(t) ==
    /\ pc[t] = "insert"
    /\ LET r == insertCallbackFn(logConfig.callbacks, call[t].cbFn, call[t].cbData,
                                 call[t].cbLogLevel)
       IN  /\ logConfig' = [logConfig EXCEPT !.callbacks = r.callbacks]
           /\ call' = [call EXCEPT ![t].registered = r.registered]
    /\ pc' = [pc EXCEPT ![t] = "done"]
    /\ UNCHANGED <<envVars, console, localVars>>

\* One thread logs while another registers callbacks; the configuration
\* functions take no lock, so their statements interleave with the dispatch.
NextRace ==
    \/ Dispatch(MainThread)
    \/ \E id \in CallbackIds, level \in CallbackLevels :
           log_registerCallbackFn_remove(OtherThread, id.cbFn, id.cbData, level)
    \/ log_registerCallbackFn_insert(OtherThread)
    \/ api_return(OtherThread)

SpecRace == InitConcurrent /\ [][NextRace]_vars

\* The invocations thread t's log_log has made of the identity (cbFn, cbData).
InvocationsOf(t, cbFn, cbData) ==
    SelectSeq(steps[t], LAMBDA st : st.op = "callback" /\ st.fn = cbFn /\ st.data = cbData)

\* C36: re-registering an already registered identity while another thread is
\* dispatching never makes that callback miss an event: under any interleaving
\* of log_registerCallbackFn( cb, data, newLevel ) with a log_log call whose
\* level is >= both thresholds and whose lock is granted, the callback is
\* invoked exactly once.
C36_ReRegisterNeverMisses ==
    \A t, u \in Threads :
        (/\ Dispatched(t)
         /\ \A l \in CallbackLevels : ev[t].level >= l
         /\ call[u].op = "register" /\ call[u].finished) =>
            Len(InvocationsOf(t, call[u].cbFn, call[u].cbData)) = 1

====
